---- MODULE Spec2Model ----
(***************************************************************************)
(* k8s-slack-searcher: the SQLite store (pkg/database), the ingestion      *)
(* pipeline (pkg/indexer) and the query / thread assembly (pkg/searcher).  *)
(*                                                                         *)
(* A Go string is a sequence of units; a unit is a character or an         *)
(* unbroken chunk of characters with no white space and no dot in it.      *)
(* "" is << >>, "5.1" is << "5", ".", "1" >>, "hello world" is             *)
(* << "hello", " ", "world" >>.                                            *)
(***************************************************************************)
EXTENDS Integers, Sequences, FiniteSets, TLC

(* ----------------------------- bounds ---------------------------------- *)
\* IndexChannel runs (one per invocation of the ingest command)
MaxRuns == 2
\* *.json files listed in the channel directory of one run
MaxFiles == 2
\* raw records in one day file
MaxRecs == 2
\* rows in the messages table
MaxMsgs == 2
\* entries of users.json / channels.json
MaxRefs == 2
\* rows in the messages table of the thread-context specification
MaxThreadMsgs == 3
\* search results handed to GenerateHTMLOutput
MaxResults == 2

(* ----------------------------- strings --------------------------------- *)
Digits == {"0", "1", "2", "3", "4", "5", "6", "7", "8", "9"}

DigitVal(c) ==
  CASE c = "0" -> 0 [] c = "1" -> 1 [] c = "2" -> 2 [] c = "3" -> 3
    [] c = "4" -> 4 [] c = "5" -> 5 [] c = "6" -> 6 [] c = "7" -> 7
    [] c = "8" -> 8 [] c = "9" -> 9

\* unicode.IsSpace on a unit
IsSpace(c) == c \in {" ", "\t", "\n"}

\* strings.TrimSpace
RECURSIVE TrimLeft(_)
TrimLeft(s) ==
  IF s # << >> /\ IsSpace(Head(s)) THEN TrimLeft(Tail(s)) ELSE s

RECURSIVE TrimRight(_)
TrimRight(s) ==
  IF s # << >> /\ IsSpace(s[Len(s)]) THEN TrimRight(SubSeq(s, 1, Len(s) - 1)) ELSE s

TrimSpace(s) == TrimRight(TrimLeft(s))

\* strings.Split(s, "."): the parts between the dots, "" gives one empty part
RECURSIVE SplitDot(_)
SplitDot(s) ==
  IF \E i \in 1..Len(s) : s[i] = "."
  THEN LET i == CHOOSE k \in 1..Len(s) : s[k] = "." /\ \A j \in 1..(k - 1) : s[j] # "."
       IN  << SubSeq(s, 1, i - 1) >> \o SplitDot(SubSeq(s, i + 1, Len(s)))
  ELSE << s >>

RECURSIVE DecimalValue(_)
DecimalValue(s) ==
  IF s = << >> THEN 0 ELSE 10 * DecimalValue(SubSeq(s, 1, Len(s) - 1)) + DigitVal(s[Len(s)])

\* strconv.ParseInt(s, 10, 64): an optional sign, then one or more digits
\* (the tokens of the model have a few digits, far from the 64-bit range error)
ParseInt(s) ==
  LET signed == s # << >> /\ Head(s) \in {"+", "-"}
      body   == IF signed THEN Tail(s) ELSE s
  IN  IF body = << >> \/ \E i \in 1..Len(body) : body[i] \notin Digits
      THEN [ok |-> FALSE, v |-> 0]
      ELSE [ok |-> TRUE,
            v  |-> IF signed /\ Head(s) = "-" THEN 0 - DecimalValue(body) ELSE DecimalValue(body)]

\* a variant of parseSlackTimestamp that takes a token without a dot too
parseSlackTimestampAnyParts(ts) ==
  LET parts == SplitDot(ts)
  IN  [ok |-> ParseInt(parts[1]).ok, t |-> ParseInt(parts[1]).v]

\* parseSlackTimestamp: time.Unix(seconds, 0) as seconds since the epoch
parseSlackTimestamp(ts) ==
  LET parts == SplitDot(ts)
  IN  IF Len(parts) # 2
      THEN [ok |-> FALSE, t |-> 0]
      ELSE [ok |-> ParseInt(parts[1]).ok, t |-> ParseInt(parts[1]).v]

\* strings.TrimSuffix(filename, ".json")
TrimSuffixJson(name) ==
  IF name # << >> /\ name[Len(name)] = ".json" THEN SubSeq(name, 1, Len(name) - 1) ELSE name

\* time.Parse("2006-01-02", dateStr) on the file names of the model, as seconds
\* since the epoch at midnight UTC
ParseDate(dateStr) ==
  IF dateStr = << "1970-01-01" >> THEN [ok |-> TRUE, t |-> 0]
  ELSE IF dateStr = << "1970-01-02" >> THEN [ok |-> TRUE, t |-> 86400]
  ELSE [ok |-> FALSE, t |-> 0]

(* ------------------------------ JSON ----------------------------------- *)
\* a member of a decoded JSON object (map[string]interface{}): absent, a string,
\* or a value of another type (number, bool, null, object, array)
JAbsent == [t |-> "absent", s |-> << >>]
JOther  == [t |-> "other", s |-> << >>]
JStr(s) == [t |-> "string", s |-> s]

\* v, ok := x.(string): the zero value "" when the assertion fails
IsString(x) == x.t = "string"
StringOf(x) == IF x.t = "string" THEN x.s ELSE << >>

U1 == << "U1" >>
U2 == << "U2" >>
U9 == << "U9" >>
T1 == << "5", ".", "1" >>
T2 == << "5", ".", "9" >>

\* one element of a day file's top-level array.  obj = FALSE: not a JSON object
\* (json.Unmarshal into a map fails).  reply_count and reply_users_count are JSON
\* numbers, 0 when absent.
RecRoot ==
  [obj |-> TRUE, subtype |-> JAbsent, user |-> JStr(U1), text |-> JStr(<< "hello" >>),
   ts |-> JStr(T1), type |-> JStr(<< "message" >>), thread_ts |-> JStr(T1),
   reply_count |-> 1, reply_users_count |-> 1, latest_reply |-> JStr(T2)]

\* a reply in the same whole second as its root, with a subtype that is not bot_message
RecReply ==
  [RecRoot EXCEPT !.subtype = JStr(<< "thread_broadcast" >>), !.user = JStr(U2),
                  !.text = JStr(<< "hello", " ", "world" >>), !.ts = JStr(T2),
                  !.reply_count = 0, !.reply_users_count = 0, !.latest_reply = JAbsent]

\* an author no users.json of the model knows, no ts, no thread
RecUnknown ==
  [RecRoot EXCEPT !.user = JStr(U9), !.ts = JAbsent, !.thread_ts = JAbsent,
                  !.reply_count = 0, !.reply_users_count = 0, !.latest_reply = JAbsent]

RecBot       == [RecRoot EXCEPT !.subtype = JStr(<< "bot_message" >>)]
RecNoUser    == [RecRoot EXCEPT !.user = JAbsent]
RecUserNum   == [RecRoot EXCEPT !.user = JOther]
RecNoText    == [RecRoot EXCEPT !.text = JAbsent]
RecTextNum   == [RecRoot EXCEPT !.text = JOther]
RecEmptyText == [RecRoot EXCEPT !.text = JStr(<< >>)]
RecBlankText == [RecRoot EXCEPT !.text = JStr(<< " ", "\n" >>)]
RecMalformed == [RecRoot EXCEPT !.obj = FALSE]

RecordSet ==
  {RecRoot, RecReply, RecUnknown, RecBot, RecNoUser, RecUserNum, RecNoText,
   RecTextNum, RecEmptyText, RecBlankText, RecMalformed}

\* models.UserJSON entries of users.json (Profile flattened)
UserAlice   == [ID |-> U1, Name |-> << "alice" >>, RealName |-> << "Alice" >>,
                DisplayName |-> << "ali" >>, IsBot |-> FALSE, Deleted |-> FALSE]
UserRenamed == [UserAlice EXCEPT !.Name = << "alicia" >>, !.RealName = << >>]
UserBob     == [ID |-> U2, Name |-> << "bob" >>, RealName |-> << "Bob" >>,
                DisplayName |-> << >>, IsBot |-> TRUE, Deleted |-> FALSE]
UserJSONSet == {UserAlice, UserRenamed, UserBob}

\* models.Channel entries of channels.json
ChanGeneral == [ID |-> << "C1" >>, Name |-> << "general" >>, Created |-> 1,
                Creator |-> U1, IsArchived |-> FALSE]
ChanRenamed == [ChanGeneral EXCEPT !.Name = << "main" >>, !.IsArchived = TRUE]
ChanRandom  == [ID |-> << "C2" >>, Name |-> << "random" >>, Created |-> 2,
                Creator |-> U2, IsArchived |-> FALSE]
ChannelSet  == {ChanGeneral, ChanRenamed, ChanRandom}

\* all sequences over S of length at most n
SeqsUpTo(S, n) == UNION {[1..k -> S] : k \in 0..n}

\* what os.ReadFile + json.Unmarshal make of a reference file
RefFile(S) ==
  {[ok |-> TRUE, data |-> d] : d \in SeqsUpTo(S, MaxRefs)} \cup {[ok |-> FALSE, data |-> << >>]}

\* the *.json entries a channel directory can hold, in WalkDir's lexical order
File1 == << "1970-01-01", ".json" >>
File2 == << "1970-01-02", ".json" >>
FileN == << "notes", ".json" >>
AllFiles == << File1, File2, FileN >>

(* ------------------------------ state ---------------------------------- *)
VARIABLES
  users,          \* table users: id -> row
  channels,       \* table channels: id -> row
  messages,       \* table messages, in rowid order
  fts,            \* virtual table messages_fts: rowid -> entry
  seq,            \* sqlite_sequence of messages (AUTOINCREMENT)
  origin,         \* history: for each messages row, the raw record it was made
                  \* from and the users row of its author when it was inserted
  pc,             \* where IndexChannel stands
  runs,           \* IndexChannel runs started
  msgs0,          \* history: number of messages rows when the run began
  usersData,      \* loadUsers: the decoded users.json
  ui,             \* loadUsers: index of the next entry
  users0,         \* history: table users when loadUsers began
  channelsData,   \* loadChannels: the decoded channels.json
  ci,             \* loadChannels: index of the next entry
  channels0,      \* history: table channels when loadChannels began
  userIds,        \* history: the identifiers users.json held in this run
  channelIds,     \* history: the identifiers channels.json held in this run
  refFailed,      \* history: users.json or channels.json could not be read or
                  \* parsed in this run
  dir,            \* processMessageFiles: the *.json files WalkDir visits, in order
  fi,             \* processMessageFiles: index of the next file
  fileRead,       \* processMessageFile: records of the current file consumed so far
  fileWanted,     \* history: those of them that the filter policy of the
                  \* specification accepts, in order
  fileStart,      \* history: number of messages rows when the current file was opened
  filePos,        \* history: the positions in the current file of its records
                  \* stored so far
  totalFiles,     \* Indexer.totalFiles
  processedFiles, \* Indexer.processedFiles
  writeFailed,    \* history: an InsertMessage of this run returned an error
  outcomes,       \* history: for each file the walk is done with, what its
                  \* content was, how it ended and how many of its records the
                  \* filter policy accepts
  result,         \* what IndexChannel returned: "" (running), "ok" or "error"
  out,            \* what the last Searcher call returned
  databases,      \* the database files that exist in the databases directory
  channelName     \* runIngest: the channel name the running ingest was given

store   == << users, channels, messages, fts, seq, origin >>
loader  == << usersData, ui, users0, channelsData, ci, channels0, userIds, channelIds,
              refFailed >>
walker  == << dir, fi, fileRead, fileWanted, fileStart, filePos, totalFiles,
              processedFiles, writeFailed, outcomes >>
cmd     == << databases, channelName >>
vars    == << users, channels, messages, fts, seq, origin, pc, runs, msgs0, cmd, usersData, ui,
              users0, channelsData, ci, channels0, userIds, channelIds, refFailed,
              dir, fi, fileRead, fileWanted, fileStart, filePos,
              totalFiles, processedFiles, writeFailed, outcomes, result, out,
              databases, channelName >>

NoTable == [x \in {} |-> x]
NoOut   == [op |-> "none"]

Init ==
  /\ users = NoTable /\ channels = NoTable
  /\ messages = << >> /\ fts = NoTable /\ seq = 0 /\ origin = << >>
  /\ pc = "idle" /\ runs = 0 /\ msgs0 = 0
  /\ usersData = << >> /\ ui = 1 /\ users0 = NoTable
  /\ channelsData = << >> /\ ci = 1 /\ channels0 = NoTable
  /\ userIds = {} /\ channelIds = {} /\ refFailed = FALSE
  /\ dir = << >> /\ fi = 1 /\ fileRead = 0 /\ fileWanted = << >> /\ fileStart = 0
  /\ filePos = << >>
  /\ totalFiles = 0 /\ processedFiles = 0 /\ writeFailed = FALSE /\ outcomes = << >>
  /\ result = "" /\ out = NoOut
  /\ databases = {} /\ channelName = << >>

(* ------------------------------ store ---------------------------------- *)
\* a variant of Upsert that keeps the row already stored (INSERT OR IGNORE)
UpsertKeepFirst(t, id, row) ==
  [x \in (DOMAIN t) \cup {id} |-> IF x \in DOMAIN t THEN t[x] ELSE row]

\* INSERT OR REPLACE INTO t (id, ...): the row with this id is replaced
Upsert(t, id, row) == [x \in (DOMAIN t) \cup {id} |-> IF x = id THEN row ELSE t[x]]

\* InsertUser: the row written for a models.User
UserRow(u) ==
  [id |-> u.ID, name |-> u.Name, real_name |-> u.RealName,
   display_name |-> u.DisplayName, is_bot |-> u.IsBot, deleted |-> u.Deleted]

InsertUser(t, u) == Upsert(t, u.ID, UserRow(u))

\* InsertChannel: the row written for a models.Channel
ChannelRow(c) ==
  [id |-> c.ID, name |-> c.Name, created |-> c.Created, creator |-> c.Creator,
   is_archived |-> c.IsArchived]

InsertChannel(t, c) == Upsert(t, c.ID, ChannelRow(c))

\* a variant of MessageRow that writes the zero ID of the models.Message it is given
MessageRowOwnID(id, m) ==
  [id |-> 0, user_id |-> m.UserID, text |-> m.Text, type |-> m.Type,
   subtype |-> m.Subtype, timestamp |-> m.Timestamp, date |-> m.Date,
   filename |-> m.Filename]

\* InsertMessage: the seven columns the INSERT names, and the AUTOINCREMENT id
MessageRow(id, m) ==
  [id |-> id, user_id |-> m.UserID, text |-> m.Text, type |-> m.Type,
   subtype |-> m.Subtype, timestamp |-> m.Timestamp, date |-> m.Date,
   filename |-> m.Filename]

\* a variant of InsertMessage that drops a row whose author, text, token and file
\* are already stored
InsertMessageDedup(ms, new) ==
  IF \E i \in 1..Len(ms) : [ms[i] EXCEPT !.id = new.id] = new THEN ms ELSE Append(ms, new)

\* InsertMessage: INSERT INTO messages, a new row at the end of the table
InsertMessage(ms, new) == Append(ms, new)

\* trigger messages_fts_insert: INSERT ... SELECT ... FROM users u WHERE u.id =
\* new.user_id inserts one entry per users row with that id, none when there is none
FtsInsert(f, u, new) ==
  IF new.user_id \in DOMAIN u
  THEN Upsert(f, new.id,
              [text |-> new.text, user_name |-> u[new.user_id].name,
               user_real_name |-> u[new.user_id].real_name, filename |-> new.filename])
  ELSE f

(* ----------------------------- indexer --------------------------------- *)
NoStats == [ret |-> "", users |-> 0, channels |-> 0, messages |-> 0]
Failed  == [NoStats EXCEPT !.ret = "error"]

\* the position of a file name in WalkDir's lexical order
FileIndex(f) == CHOOSE i \in 1..Len(AllFiles) : AllFiles[i] = f

\* the listings WalkDir can produce: files in lexical order, each once
Listings ==
  {d \in SeqsUpTo({AllFiles[i] : i \in 1..Len(AllFiles)}, MaxFiles) :
     \A i, j \in 1..Len(d) : i < j => FileIndex(d[i]) < FileIndex(d[j])}

\* a variant of Decode that compares the text with "" without trimming it
DecodeNoTrim(r, date, filename) ==
  LET timestamp == StringOf(r.ts)
      parsed    == parseSlackTimestamp(timestamp)
  IN  [skip |-> \/ ~r.obj
                \/ (IsString(r.subtype) /\ StringOf(r.subtype) = << "bot_message" >>)
                \/ ~IsString(r.user) \/ ~IsString(r.text) \/ StringOf(r.text) = << >>,
       msg  |-> [UserID |-> StringOf(r.user), Text |-> StringOf(r.text),
                 Type |-> StringOf(r.type), Subtype |-> StringOf(r.subtype),
                 Timestamp |-> timestamp,
                 Date |-> IF timestamp # << >> /\ parsed.ok THEN parsed.t ELSE date,
                 Filename |-> filename,
                 ThreadTS |-> << >>, ReplyCount |-> 0, ReplyUsersCount |-> 0,
                 LatestReply |-> << >>]]

\* processMessageFile, the body of the loop over the raw records: what one record
\* becomes.  skip = TRUE stands for each `continue`.
Decode(r, date, filename) ==
  LET malformed == ~r.obj
      isBot     == IsString(r.subtype) /\ StringOf(r.subtype) = << "bot_message" >>
      hasUser   == IsString(r.user)
      hasText   == IsString(r.text)
      text      == StringOf(r.text)
      timestamp == StringOf(r.ts)
      parsed    == parseSlackTimestamp(timestamp)
      msgTime   == IF timestamp # << >> /\ parsed.ok THEN parsed.t ELSE date
  IN  [skip |-> malformed \/ isBot \/ ~hasUser \/ ~hasText \/ TrimSpace(text) = << >>,
       msg  |-> [UserID |-> StringOf(r.user), Text |-> text, Type |-> StringOf(r.type),
                 Subtype |-> StringOf(r.subtype), Timestamp |-> timestamp,
                 Date |-> msgTime, Filename |-> filename,
                 ThreadTS |-> << >>, ReplyCount |-> 0, ReplyUsersCount |-> 0,
                 LatestReply |-> << >>]]

(* --------------------------- store files ------------------------------- *)
\* a channel name is a sequence of units. strings.NewReplacer with one-byte old
\* strings replaces every unit of the table and copies the others.
Replace(table, name) ==
  [i \in 1..Len(name) |-> IF name[i] \in DOMAIN table THEN table[name[i]] ELSE name[i]]

\* a variant of the searcher's sanitizeFilename whose table lacks the space
searcherSanitizeFilenameNoSpace(name) ==
  Replace([c \in {":", "/", "\\", "*", "?", "\"", "<", ">", "|"} |-> "_"], name)

\* sanitizeFilename of the database package
sanitizeFilename(name) ==
  Replace(":" :> "_" @@ "/" :> "_" @@ "\\" :> "_" @@ "*" :> "_" @@ "?" :> "_"
          @@ "\"" :> "_" @@ "<" :> "_" @@ ">" :> "_" @@ "|" :> "_" @@ " " :> "_", name)

\* sanitizeFilename of the searcher package
searcherSanitizeFilename(name) ==
  Replace(":" :> "_" @@ "/" :> "_" @@ "\\" :> "_" @@ "*" :> "_" @@ "?" :> "_"
          @@ "\"" :> "_" @@ "<" :> "_" @@ ">" :> "_" @@ "|" :> "_" @@ " " :> "_", name)

\* NewDB: filepath.Join("databases", sanitizeFilename(channelName) + ".db")
DBPath(channelName_) ==
  << "databases", "/" >> \o sanitizeFilename(channelName_) \o << ".db" >>

\* ValidateDatabaseExists: filepath.Join("databases", sanitizeFilename(channelName) + ".db")
ValidatePath(channelName_) ==
  << "databases", "/" >> \o searcherSanitizeFilename(channelName_) \o << ".db" >>

\* fileExists: `_, err := filepath.Abs(filename); return err == nil`. The file is
\* never looked at; abs tells whether filepath.Abs (os.Getwd) succeeded.
fileExists(filename, abs) == abs

\* the channel names "a_b" and "a b"
ChannelAB     == << "a", "_", "b" >>
ChannelASpace == << "a", " ", "b" >>

\* the store whose tables the model holds: the one ingestion writes
Home == DBPath(ChannelAB)

\* no command is running: no ingest, and no Searcher is open
Idle == pc = "idle" /\ out = NoOut

\* a Searcher is open on the store of the model, which NewSearcher found
\* existing (createTables is IF NOT EXISTS), and no call of it has returned yet
Open == Idle /\ Home \in databases

\* a variant of Sequel that walks the day files before it loads the channels
SequelFilesFirst(step) ==
  CASE step = "users" -> "count" [] step = "files" -> "loadChannels"
    [] step = "channels" -> "done"

\* IndexChannel: what follows the return of loadUsers, of loadChannels and of
\* processMessageFiles when it is not an error
Sequel(step) ==
  CASE step = "users" -> "loadChannels" [] step = "channels" -> "count"
    [] step = "files" -> "done"

\* the filter policy as the specification states it (section 4.2): a record is
\* stored unless it is tagged bot-originated, has no string author identifier, or
\* its text is missing, not a string, empty or white space only
Acceptable(r) ==
  /\ r.obj
  /\ r.subtype # JStr(<< "bot_message" >>)
  /\ r.user.t = "string"
  /\ r.text.t = "string"
  /\ \E i \in 1..Len(r.text.s) : ~IsSpace(r.text.s[i])

\* runIngest: NewIndexer (NewDB, createTables IF NOT EXISTS) and the call of IndexChannel
StartRun(N) ==
  /\ Idle /\ runs < MaxRuns
  /\ \E name \in N : /\ channelName' = name
                     /\ databases' = databases \cup {DBPath(name)}
  /\ pc' = "loadUsers" /\ runs' = runs + 1 /\ msgs0' = Len(messages)
  /\ totalFiles' = 0 /\ processedFiles' = 0 /\ writeFailed' = FALSE /\ outcomes' = << >>
  /\ result' = NoStats /\ users0' = users /\ channels0' = channels
  /\ userIds' = {} /\ channelIds' = {} /\ refFailed' = FALSE
  /\ dir' = << >> /\ fi' = 1
  /\ UNCHANGED << store, usersData, ui, channelsData, ci, fileRead, fileWanted, fileStart,
                  filePos, out >>

\* the identifiers of the entries of a reference file
IdsIn(data) == {data[i].ID : i \in 1..Len(data)}

\* a variant of LoadUsersRead that takes a users.json it cannot read for an empty one
LoadUsersReadLenient(F) ==
  /\ pc = "loadUsers"
  /\ \E f \in F :
       /\ usersData' = f.data /\ ui' = 1 /\ userIds' = IdsIn(f.data)
       /\ refFailed' = ~f.ok
       /\ pc' = IF f.data = << >> THEN Sequel("users") ELSE "insertUsers"
       /\ UNCHANGED result
  /\ UNCHANGED << store, runs, msgs0, cmd, users0, channelsData, ci, channels0, channelIds,
                  walker, out >>

\* loadUsers up to the loop: os.ReadFile and json.Unmarshal of users.json
LoadUsersRead(F) ==
  /\ pc = "loadUsers"
  /\ \E f \in F :
       IF f.ok
       THEN /\ usersData' = f.data /\ ui' = 1 /\ userIds' = IdsIn(f.data)
            /\ pc' = IF f.data = << >> THEN Sequel("users") ELSE "insertUsers"
            /\ UNCHANGED << result, refFailed >>
       ELSE /\ pc' = "failed" /\ result' = Failed /\ refFailed' = TRUE
            /\ UNCHANGED << usersData, ui, userIds >>
  /\ UNCHANGED << store, runs, msgs0, cmd, users0, channelsData, ci, channels0, channelIds,
                  walker, out >>

\* a variant of InsertUserStep in which replacing a users row takes the messages
\* rows of that author with it (a foreign key ON DELETE CASCADE that is enforced)
InsertUserStepCascade ==
  /\ pc = "insertUsers"
  /\ \E ok \in BOOLEAN :
       IF ok
       THEN /\ users' = InsertUser(users, usersData[ui])
            /\ messages' = IF usersData[ui].ID \in DOMAIN users
                            THEN SelectSeq(messages,
                                           LAMBDA m : m.user_id # usersData[ui].ID)
                            ELSE messages
            /\ ui' = ui + 1
            /\ pc' = IF ui = Len(usersData) THEN Sequel("users") ELSE "insertUsers"
            /\ UNCHANGED result
       ELSE /\ pc' = "failed" /\ result' = Failed
            /\ UNCHANGED << users, messages, ui >>
  /\ UNCHANGED << channels, fts, seq, origin, runs, msgs0, cmd, usersData, users0,
                  channelsData, ci, channels0, userIds, channelIds, refFailed, walker,
                  out >>

\* loadUsers, one turn of the loop: InsertUser, whose error ends IndexChannel
InsertUserStep ==
  /\ pc = "insertUsers"
  /\ \E ok \in BOOLEAN :
       IF ok
       THEN /\ users' = InsertUser(users, usersData[ui])
            /\ ui' = ui + 1
            /\ pc' = IF ui = Len(usersData) THEN Sequel("users") ELSE "insertUsers"
            /\ UNCHANGED result
       ELSE /\ pc' = "failed" /\ result' = Failed
            /\ UNCHANGED << users, ui >>
  /\ UNCHANGED << channels, messages, fts, seq, origin, runs, msgs0, cmd, usersData, users0,
                  channelsData, ci, channels0, userIds, channelIds, refFailed, walker,
                  out >>

\* loadChannels up to the loop
LoadChannelsRead(F) ==
  /\ pc = "loadChannels"
  /\ \E f \in F :
       IF f.ok
       THEN /\ channelsData' = f.data /\ ci' = 1 /\ channelIds' = IdsIn(f.data)
            /\ pc' = IF f.data = << >> THEN Sequel("channels") ELSE "insertChannels"
            /\ UNCHANGED << result, refFailed >>
       ELSE /\ pc' = "failed" /\ result' = Failed /\ refFailed' = TRUE
            /\ UNCHANGED << channelsData, ci, channelIds >>
  /\ usersData' = << >> /\ ui' = 1 /\ users0' = users
  /\ UNCHANGED << store, runs, msgs0, cmd, channels0, userIds, walker, out >>

\* loadChannels, one turn of the loop
InsertChannelStep ==
  /\ pc = "insertChannels"
  /\ \E ok \in BOOLEAN :
       IF ok
       THEN /\ channels' = InsertChannel(channels, channelsData[ci])
            /\ ci' = ci + 1
            /\ pc' = IF ci = Len(channelsData) THEN Sequel("channels")
                     ELSE "insertChannels"
            /\ UNCHANGED result
       ELSE /\ pc' = "failed" /\ result' = Failed
            /\ UNCHANGED << channels, ci >>
  /\ UNCHANGED << users, messages, fts, seq, origin, runs, msgs0, cmd, usersData, ui, users0,
                  channelsData, channels0, userIds, channelIds, refFailed, walker, out >>

\* processMessageFiles, the first WalkDir (the count) and the listing the second
\* one walks; a WalkDir error ends IndexChannel
CountFiles(D) ==
  /\ pc = "count"
  /\ \E d \in D, ok \in BOOLEAN :
       IF ok
       THEN /\ dir' = d /\ fi' = 1 /\ totalFiles' = totalFiles + Len(d)
            /\ pc' = "walk" /\ UNCHANGED result
       ELSE /\ pc' = "failed" /\ result' = Failed
            /\ UNCHANGED << dir, fi, totalFiles >>
  /\ channelsData' = << >> /\ ci' = 1 /\ channels0' = channels
  /\ UNCHANGED << store, runs, msgs0, cmd, usersData, ui, users0, userIds, channelIds,
                  refFailed, fileRead, fileWanted, fileStart, filePos, processedFiles,
                  writeFailed, outcomes, out >>

\* the entry of outcomes for a file the walk is done with
Outcome(content, end, wanted) == [content |-> content, end |-> end, wanted |-> wanted]

\* a variant of OpenFile in which a file that cannot be opened ends IndexChannel
OpenFileStrict ==
  /\ pc = "walk" /\ fi <= Len(dir)
  /\ \E content \in {"array", "unreadable", "notarray"} :
       IF content = "array" /\ ParseDate(TrimSuffixJson(dir[fi])).ok
       THEN /\ pc' = "records" /\ fileStart' = Len(messages)
            /\ UNCHANGED << fi, outcomes, result >>
       ELSE /\ pc' = "failed" /\ result' = Failed
            /\ outcomes' = Append(outcomes, Outcome(content, "skipped", 0))
            /\ UNCHANGED << fi, fileStart >>
  /\ fileRead' = 0 /\ fileWanted' = << >> /\ filePos' = << >>
  /\ UNCHANGED << store, runs, msgs0, cmd, loader, dir, totalFiles, processedFiles,
                  writeFailed, out >>

\* a variant of OpenFile that tries a file it could not read a second time
OpenFileRetry ==
  /\ pc = "walk" /\ fi <= Len(dir)
  /\ \E content \in {"array", "unreadable", "notarray"} :
       IF content = "array" /\ ParseDate(TrimSuffixJson(dir[fi])).ok
       THEN /\ pc' = "records" /\ fileStart' = Len(messages)
            /\ UNCHANGED << fi, outcomes >>
       ELSE /\ fi' = IF Len(outcomes) < fi THEN fi ELSE fi + 1
            /\ outcomes' = Append(outcomes, Outcome(content, "skipped", 0))
            /\ UNCHANGED << pc, fileStart >>
  /\ fileRead' = 0 /\ fileWanted' = << >> /\ filePos' = << >>
  /\ UNCHANGED << store, runs, msgs0, cmd, loader, dir, totalFiles, processedFiles,
                  writeFailed, result, out >>

\* processMessageFile up to the loop: ReadFile, Unmarshal into []json.RawMessage,
\* the date of the file name.  Each failure is a warning of processMessageFiles.
OpenFile ==
  /\ pc = "walk" /\ fi <= Len(dir)
  /\ \E content \in {"array", "unreadable", "notarray"} :
       IF content = "array" /\ ParseDate(TrimSuffixJson(dir[fi])).ok
       THEN /\ pc' = "records" /\ fileStart' = Len(messages)
            /\ UNCHANGED << fi, outcomes >>
       ELSE /\ fi' = fi + 1
            /\ outcomes' = Append(outcomes, Outcome(content, "skipped", 0))
            /\ UNCHANGED << pc, fileStart >>
  /\ fileRead' = 0 /\ fileWanted' = << >> /\ filePos' = << >>
  /\ UNCHANGED << store, runs, msgs0, cmd, loader, dir, totalFiles, processedFiles,
                  writeFailed, result, out >>

\* a variant of ReadRecord in which an element that is not a JSON object ends the
\* file as a parse failure
ReadRecordAbortOnMalformed(R) ==
  /\ pc = "records" /\ fileRead < MaxRecs /\ Len(messages) < MaxMsgs
  /\ \E r \in R, ok \in BOOLEAN :
       LET d      == Decode(r, ParseDate(TrimSuffixJson(dir[fi])).t, dir[fi])
           new    == MessageRow(seq + 1, d.msg)
           wanted == IF Acceptable(r) THEN Append(fileWanted, r) ELSE fileWanted
       IN  /\ fileRead' = fileRead + 1
           /\ fileWanted' = wanted
           /\ IF ~r.obj
              THEN /\ ok /\ pc' = "walk" /\ fi' = fi + 1
                   /\ outcomes' = Append(outcomes, Outcome("array", "skipped", Len(wanted)))
                   /\ filePos' = << >>
                   /\ UNCHANGED << store, writeFailed >>
              ELSE IF d.skip
              THEN /\ ok
                   /\ UNCHANGED << store, pc, fi, filePos, writeFailed, outcomes >>
              ELSE IF ok
              THEN /\ messages' = InsertMessage(messages, new)
                   /\ fts' = FtsInsert(fts, users, new)
                   /\ seq' = seq + 1
                   /\ origin' = Append(origin,
                        [rec |-> r, channel |-> channelName,
                         known |-> new.user_id \in DOMAIN users,
                         name |-> IF new.user_id \in DOMAIN users
                                  THEN users[new.user_id].name ELSE << >>,
                         real_name |-> IF new.user_id \in DOMAIN users
                                       THEN users[new.user_id].real_name ELSE << >>])
                   /\ filePos' = Append(filePos, fileRead + 1)
                   /\ UNCHANGED << users, channels, pc, fi, writeFailed, outcomes >>
              ELSE /\ writeFailed' = TRUE /\ pc' = "walk" /\ fi' = fi + 1
                   /\ outcomes' = Append(outcomes, Outcome("array", "failed", Len(wanted)))
                   /\ filePos' = << >>
                   /\ UNCHANGED store
  /\ UNCHANGED << runs, msgs0, cmd, loader, dir, fileStart, totalFiles, processedFiles,
                  result, out >>

\* processMessageFile, one turn of the loop over the records: skip the record, or
\* InsertMessage with its trigger; an InsertMessage error returns from the file and
\* processMessageFiles prints a warning and goes on.  The table holds at most n rows.
ReadRecordUpTo(R, n) ==
  /\ pc = "records" /\ fileRead < MaxRecs /\ Len(messages) < n
  /\ \E r \in R, ok \in BOOLEAN :
       LET d      == Decode(r, ParseDate(TrimSuffixJson(dir[fi])).t, dir[fi])
           new    == MessageRow(seq + 1, d.msg)
           wanted == IF Acceptable(r) THEN Append(fileWanted, r) ELSE fileWanted
       IN  /\ fileRead' = fileRead + 1
           /\ fileWanted' = wanted
           /\ IF d.skip
              THEN /\ ok
                   /\ UNCHANGED << store, pc, fi, filePos, writeFailed, outcomes >>
              ELSE IF ok
              THEN /\ messages' = InsertMessage(messages, new)
                   /\ fts' = FtsInsert(fts, users, new)
                   /\ seq' = seq + 1
                   /\ origin' = Append(origin,
                        [rec |-> r, channel |-> channelName,
                         known |-> new.user_id \in DOMAIN users,
                         name |-> IF new.user_id \in DOMAIN users
                                  THEN users[new.user_id].name ELSE << >>,
                         real_name |-> IF new.user_id \in DOMAIN users
                                       THEN users[new.user_id].real_name ELSE << >>])
                   /\ filePos' = Append(filePos, fileRead + 1)
                   /\ UNCHANGED << users, channels, pc, fi, writeFailed, outcomes >>
              ELSE /\ writeFailed' = TRUE /\ pc' = "walk" /\ fi' = fi + 1
                   /\ outcomes' = Append(outcomes, Outcome("array", "failed", Len(wanted)))
                   /\ filePos' = << >>
                   /\ UNCHANGED store
  /\ UNCHANGED << runs, msgs0, cmd, loader, dir, fileStart, totalFiles, processedFiles,
                  result, out >>

\* processMessageFile, one turn of the loop, with the table bounded by MaxMsgs
ReadRecord(R) == ReadRecordUpTo(R, MaxMsgs)

\* processMessageFile returns nil: the file counts as processed
EndOfFile ==
  /\ pc = "records"
  /\ pc' = "walk" /\ fi' = fi + 1 /\ processedFiles' = processedFiles + 1
  /\ outcomes' = Append(outcomes, Outcome("array", "processed", Len(fileWanted)))
  /\ filePos' = << >>
  /\ UNCHANGED << store, runs, msgs0, cmd, loader, dir, fileRead, fileWanted, fileStart,
                  totalFiles, writeFailed, result, out >>

\* runIngest returns and the process ends: the Indexer is gone
Exit ==
  /\ pc \in {"done", "failed"}
  /\ pc' = "idle" /\ result' = NoStats /\ msgs0' = Len(messages)
  /\ usersData' = << >> /\ ui' = 1 /\ users0' = users
  /\ channelsData' = << >> /\ ci' = 1 /\ channels0' = channels
  /\ userIds' = {} /\ channelIds' = {} /\ refFailed' = FALSE
  /\ dir' = << >> /\ fi' = 1 /\ fileRead' = 0 /\ fileWanted' = << >> /\ fileStart' = 0
  /\ filePos' = << >>
  /\ totalFiles' = 0 /\ processedFiles' = 0 /\ writeFailed' = FALSE /\ outcomes' = << >>
  /\ channelName' = << >>
  /\ UNCHANGED << store, runs, out, databases >>

\* GetStats
Stats(ret) ==
  [ret |-> ret, users |-> Cardinality(DOMAIN users),
   channels |-> Cardinality(DOMAIN channels), messages |-> Len(messages)]

\* IndexChannel after processMessageFiles: GetStats and the printed counts; the
\* locals of the last processMessageFile are gone
FinishWalk ==
  /\ pc = "walk" /\ fi > Len(dir)
  /\ pc' = Sequel("files")
  /\ result' = IF Sequel("files") = "done" THEN Stats("ok") ELSE result
  /\ fileRead' = 0 /\ fileWanted' = << >> /\ fileStart' = 0
  /\ UNCHANGED << store, runs, msgs0, cmd, loader, dir, fi, filePos, totalFiles,
                  processedFiles, writeFailed, outcomes, out >>

(* ----------------------------- searcher -------------------------------- *)
\* the terms the FTS tokenizer finds in a column: its units that are not white space
Terms(col) == {col[i] : i \in 1..Len(col)} \ {" ", "\t", "\n"}

\* messages_fts MATCH ?, for a query of one term: any column holds the term.
\* A query with an unbalanced quote is the engine's syntax error.
QueryFails(q) == \E i \in 1..Len(q) : q[i] = "\""

Match(q, e) ==
  /\ Len(q) = 1
  /\ q[1] \in Terms(e.text) \cup Terms(e.user_name) \cup Terms(e.user_real_name)
              \cup Terms(e.filename)

\* SearchMessages, one scanned row: the messages row joined (LEFT JOIN) with the
\* users row of its author; the thread fields of models.Message are not selected
SearchRow(m) ==
  [ID |-> m.id, UserID |-> m.user_id, Text |-> m.text, Type |-> m.type,
   Subtype |-> m.subtype, Timestamp |-> m.timestamp, Date |-> m.date,
   Filename |-> m.filename,
   UserName |-> IF m.user_id \in DOMAIN users THEN users[m.user_id].name ELSE << >>,
   UserRealName |-> IF m.user_id \in DOMAIN users THEN users[m.user_id].real_name
                    ELSE << >>,
   ThreadTS |-> << >>, ReplyCount |-> 0, ReplyUsersCount |-> 0, LatestReply |-> << >>]

Take(sq, n) == SubSeq(sq, 1, IF Len(sq) < n THEN Len(sq) ELSE n)

\* SearchMessages: FROM messages_fts JOIN messages ... WHERE MATCH ? LIMIT ?
SearchMessages(query, limit) ==
  LET IsHit(m) == m.id \in DOMAIN fts /\ Match(query, fts[m.id])
      hits     == SelectSeq(messages, IsHit)
  IN  Take([i \in 1..Len(hits) |-> SearchRow(hits[i])], limit)

DefaultLimit == 10

\* what Searcher.Search returned.  asked, limit and iterErr are history: the limit
\* of the caller, the limit handed to SearchMessages, and whether the iteration
\* over the rows ended on an error (rows.Err() # nil)
SearchOut(err, iterErr, query, asked, lim, rs) ==
  [op |-> "search", err |-> err, iterErr |-> iterErr, query |-> query, asked |-> asked,
   limit |-> lim, results |-> rs]

\* SearchMessages as the driver lets it end: conn.Query fails on a malformed query;
\* rows.Scan fails on a row (nil, err); rows.Next ends the loop, on the end of the
\* rows or on an error after k rows, and what was appended is returned with a nil
\* error, rows.Err() not being looked at
SearchOutcomes(query, asked, lim) ==
  LET full == SearchMessages(query, lim)
  IN  IF QueryFails(query)
      THEN {SearchOut(TRUE, FALSE, query, asked, lim, << >>)}
      ELSE {SearchOut(FALSE, FALSE, query, asked, lim, full)}
           \cup {SearchOut(TRUE, FALSE, query, asked, lim, << >>) : k \in 1..Len(full)}
           \cup {SearchOut(FALSE, TRUE, query, asked, lim, Take(full, k)) :
                   k \in 0..Len(full)}

\* a variant of Search that hands the caller's limit to SearchMessages as it is
SearchNoDefault(query, limit) ==
  /\ Open
  /\ out' \in SearchOutcomes(query, limit, limit)
  /\ UNCHANGED << store, pc, runs, msgs0, cmd, loader, walker, result >>

\* Searcher.Search
Search(query, limit) ==
  /\ Open
  /\ LET lim == IF limit <= 0 THEN DefaultLimit ELSE limit
     IN  out' \in SearchOutcomes(query, limit, lim)
  /\ UNCHANGED << store, pc, runs, msgs0, cmd, loader, walker, result >>

\* the thread-root token of a messages row: the table has no such column and
\* InsertMessage writes none, so it reads as empty
RowThreadTS(m) == << >>

\* models.Message of a messages row, as GetThreadMessages returns it
ThreadRow(m) ==
  [ID |-> m.id, UserID |-> m.user_id, Text |-> m.text, Timestamp |-> m.timestamp,
   Date |-> m.date, Filename |-> m.filename, ThreadTS |-> RowThreadTS(m)]

\* permutations of 1..n
Perms(n) == {p \in [1..n -> 1..n] : \A i, j \in 1..n : i # j => p[i] # p[j]}

\* database.GetThreadMessages: the rows whose timestamp or thread-root token is
\* threadTS, ORDER BY date ASC; rows of equal date come in any order
GetThreadMessagesRows(threadTS) ==
  LET InThread(m) == m.timestamp = threadTS \/ RowThreadTS(m) = threadTS
      rows        == SelectSeq(messages, InThread)
      n           == Len(rows)
  IN  {[i \in 1..n |-> ThreadRow(rows[p[i]])] :
         p \in {q \in Perms(n) : \A i, j \in 1..n :
                                   i < j => rows[q[i]].date <= rows[q[j]].date}}

\* Searcher.GetThreadMessages
GetThreadMessages(threadTS) ==
  /\ Open
  /\ \/ out' = [op |-> "thread", err |-> TRUE, root |-> threadTS, msgs |-> << >>]
     \/ \E ms \in GetThreadMessagesRows(threadTS) :
          out' = [op |-> "thread", err |-> FALSE, root |-> threadTS, msgs |-> ms]
  /\ UNCHANGED << store, pc, runs, msgs0, cmd, loader, walker, result >>

\* a variant of ThreadRoot that looks at the reply count first
ThreadRootReplyFirst(res) ==
  IF res.ReplyCount > 0 THEN res.Timestamp
  ELSE IF res.ThreadTS # << >> THEN res.ThreadTS
  ELSE << >>

\* GenerateHTMLOutput, the choice of the thread root of one result
ThreadRoot(res) ==
  IF res.ThreadTS # << >> THEN res.ThreadTS
  ELSE IF res.ReplyCount > 0 THEN res.Timestamp
  ELSE << >>

\* a variant of Threaded that takes a lookup of one message for a thread
ThreadedAtLeastOne(res) ==
  LET threadTS == ThreadRoot(res)
      Entry(looked, failed, ms) ==
        [OriginalResult |-> res,
         ThreadMessages |-> IF looked /\ ~failed /\ Len(ms) > 0 THEN ms ELSE << >>,
         IsThreaded     |-> looked /\ ~failed /\ Len(ms) > 0,
         root |-> threadTS, looked |-> looked, failed |-> failed, found |-> Len(ms)]
  IN  IF threadTS = << >>
      THEN {Entry(FALSE, FALSE, << >>)}
      ELSE {Entry(TRUE, TRUE, << >>)}
           \cup {Entry(TRUE, FALSE, ms) : ms \in GetThreadMessagesRows(threadTS)}

\* GenerateHTMLOutput, one turn of the loop: the ThreadedSearchResult of one result,
\* for each outcome of its thread lookup.  root, looked, failed and found are
\* history: the root chosen, whether GetThreadMessages was called, whether it
\* returned an error, and how many messages it returned.
Threaded(res) ==
  LET threadTS == ThreadRoot(res)
      Entry(looked, failed, ms) ==
        [OriginalResult |-> res,
         ThreadMessages |-> IF looked /\ ~failed /\ Len(ms) > 1 THEN ms ELSE << >>,
         IsThreaded     |-> looked /\ ~failed /\ Len(ms) > 1,
         root |-> threadTS, looked |-> looked, failed |-> failed, found |-> Len(ms)]
  IN  IF threadTS = << >>
      THEN {Entry(FALSE, FALSE, << >>)}
      ELSE {Entry(TRUE, TRUE, << >>)}
           \cup {Entry(TRUE, FALSE, ms) : ms \in GetThreadMessagesRows(threadTS)}

\* a variant of ThreadedResults that puts the entry of each result in front of
\* those built before it
RECURSIVE ThreadedResultsPrepend(_)
ThreadedResultsPrepend(results) ==
  IF results = << >> THEN {<< >>}
  ELSE {rest \o << e >> : e \in Threaded(Head(results)),
                          rest \in ThreadedResultsPrepend(Tail(results))}

\* GenerateHTMLOutput, the loop over the results: the threadedResults it can build
RECURSIVE ThreadedResults(_)
ThreadedResults(results) ==
  IF results = << >> THEN {<< >>}
  ELSE {<< e >> \o rest : e \in Threaded(Head(results)),
                          rest \in ThreadedResults(Tail(results))}

\* a variant of GenerateHTMLOutput that returns an error when a thread lookup failed
GenerateHTMLOutputFailFast(results) ==
  /\ pc = "idle"
  /\ \E t \in ThreadedResults(results), written \in BOOLEAN :
       out' = [op |-> "html", err |-> ~written \/ \E i \in 1..Len(t) : t[i].failed,
               written |-> written, results |-> results, threaded |-> t]
  /\ UNCHANGED << store, pc, runs, msgs0, cmd, loader, walker, result >>

\* Searcher.GenerateHTMLOutput: the threaded results, then generateHTML and
\* os.WriteFile, whose failure is the only error returned.  written is history:
\* the page was rendered and written.
GenerateHTMLOutput(results) ==
  /\ pc = "idle"
  /\ \E t \in ThreadedResults(results), written \in BOOLEAN :
       out' = [op |-> "html", err |-> ~written, written |-> written,
               results |-> results, threaded |-> t]
  /\ UNCHANGED << store, pc, runs, msgs0, cmd, loader, walker, result >>

\* strings.ReplaceAll(s, "\n", " ")
ReplaceNewlines(s) == [i \in 1..Len(s) |-> IF s[i] = "\n" THEN " " ELSE s[i]]

\* FormatResults, the user line of one result: "real (name)", name, or the user id
UserLine(res) ==
  LET userName == IF res.UserRealName # << >>
                  THEN res.UserRealName \o << " (" >> \o res.UserName \o << ")" >>
                  ELSE res.UserName
  IN  IF userName = << >> THEN res.UserID ELSE userName

\* a variant of FormatResults that writes the count line for an empty list too
FormatResultsAlwaysCount(results) ==
  [head |-> "Found %d result(s):", n |-> Len(results),
   blocks |-> [i \in 1..Len(results) |->
                 [User |-> UserLine(results[i]), Date |-> results[i].Date,
                  File |-> results[i].Filename,
                  Message |-> ReplaceNewlines(results[i].Text)]]]

\* FormatResults: the text shown for a result list (the snippet of the engine is
\* left out, the message line is the text)
FormatResults(results) ==
  IF Len(results) = 0
  THEN [head |-> "No results found.", n |-> 0, blocks |-> << >>]
  ELSE [head |-> "Found %d result(s):", n |-> Len(results),
        blocks |-> [i \in 1..Len(results) |->
                      [User |-> UserLine(results[i]), Date |-> results[i].Date,
                       File |-> results[i].Filename,
                       Message |-> ReplaceNewlines(results[i].Text)]]]

\* runSearch without --html: the results of Search are formatted and printed
PrintResults ==
  /\ pc = "idle" /\ out.op = "search" /\ ~out.err
  /\ out' = [op |-> "text", query |-> out.query, results |-> out.results,
             text |-> FormatResults(out.results)]
  /\ UNCHANGED << store, pc, runs, msgs0, cmd, loader, walker, result >>

\* runSearch: ValidateDatabaseExists(databaseName); when it is false the command
\* returns "database not found"
ValidateDatabaseExists(N) ==
  /\ Idle
  /\ \E name \in N, abs \in BOOLEAN :
       out' = [op |-> "validate", name |-> name, path |-> ValidatePath(name),
               exists |-> fileExists(ValidatePath(name), abs)]
  /\ UNCHANGED << store, pc, runs, msgs0, cmd, loader, walker, result >>

\* runSearch after a true ValidateDatabaseExists: NewSearcher, that is NewDB with
\* sql.Open and createTables (CREATE ... IF NOT EXISTS): a file that is not there
\* is created with empty tables, one that is there is left as it is
NewSearcher ==
  /\ pc = "idle" /\ out.op = "validate" /\ out.exists
  /\ \E ok \in BOOLEAN :
       /\ out' = [op |-> "open", err |-> ~ok, name |-> out.name, path |-> DBPath(out.name)]
       /\ databases' = IF ok THEN databases \cup {DBPath(out.name)} ELSE databases
  /\ UNCHANGED << store, pc, runs, msgs0, channelName, loader, walker, result >>

\* Searcher.GetStats
SearcherGetStats ==
  /\ Open
  /\ \/ out' = [op |-> "stats", err |-> TRUE, stats |-> NoStats]
     \/ out' = [op |-> "stats", err |-> FALSE, stats |-> Stats("ok")]
  /\ UNCHANGED << store, pc, runs, msgs0, cmd, loader, walker, result >>

\* runSearch returns: Searcher.Close and the end of the process
Close ==
  /\ out # NoOut
  /\ out' = NoOut
  /\ UNCHANGED << store, pc, runs, msgs0, cmd, loader, walker, result >>

(* -------------------------- specifications ----------------------------- *)
\* the reference files and queries of the pipeline specification
MainUsersFiles ==
  {[ok |-> TRUE, data |-> << UserAlice, UserBob >>],
   [ok |-> TRUE, data |-> << UserRenamed >>],
   [ok |-> FALSE, data |-> << >>]}

MainChannelsFiles ==
  {[ok |-> TRUE, data |-> << ChanGeneral, ChanRandom >>],
   [ok |-> FALSE, data |-> << >>]}

Queries == {<< "hello" >>, << "bob" >>, << "zzz" >>, << "\"", "hello" >>}
Limits  == {-1, 0, 1}

Next ==
  \/ StartRun({ChannelAB})
  \/ LoadUsersRead(MainUsersFiles)
  \/ InsertUserStep
  \/ LoadChannelsRead(MainChannelsFiles)
  \/ InsertChannelStep
  \/ CountFiles(Listings)
  \/ OpenFile
  \/ ReadRecord(RecordSet)
  \/ EndOfFile
  \/ FinishWalk
  \/ Exit
  \/ \E q \in Queries, l \in Limits : Search(q, l)
  \/ \E t \in {T1, T2} : GetThreadMessages(t)
  \/ (out.op = "search" /\ ~out.err /\ GenerateHTMLOutput(out.results))
  \/ PrintResults
  \/ Close

Spec == Init /\ [][Next]_vars

\* reference data alone: IndexChannel on a channel directory without day files, for
\* every users.json and channels.json of at most MaxRefs entries
NextRef ==
  \/ StartRun({ChannelAB})
  \/ LoadUsersRead(RefFile(UserJSONSet))
  \/ InsertUserStep
  \/ LoadChannelsRead(RefFile(ChannelSet))
  \/ InsertChannelStep
  \/ CountFiles({<< >>})
  \/ FinishWalk
  \/ Exit

SpecRef == Init /\ [][NextRef]_vars

\* search results as a caller can hand them to GenerateHTMLOutput: each thread-root
\* token, reply count and own token
BaseResult ==
  [ID |-> 1, UserID |-> U1, Text |-> << "hello" >>, Type |-> << "message" >>,
   Subtype |-> << >>, Timestamp |-> T1, Date |-> 5, Filename |-> File1,
   UserName |-> << "alice" >>, UserRealName |-> << "Alice" >>,
   ThreadTS |-> << >>, ReplyCount |-> 0, ReplyUsersCount |-> 0, LatestReply |-> << >>]

ResultSet ==
  {[BaseResult EXCEPT !.ThreadTS = th, !.ReplyCount = rc, !.Timestamp = ts] :
     th \in {<< >>, T1}, rc \in {0, 1}, ts \in {<< >>, T2}}

\* thread assembly: a store filled from one day file of roots and replies, and
\* GenerateHTMLOutput on every list of at most MaxResults results
NextThread ==
  \/ StartRun({ChannelAB})
  \/ LoadUsersRead({[ok |-> TRUE, data |-> << UserAlice, UserBob >>]})
  \/ InsertUserStep
  \/ LoadChannelsRead({[ok |-> TRUE, data |-> << ChanGeneral >>]})
  \/ InsertChannelStep
  \/ CountFiles({<< File1 >>})
  \/ OpenFile
  \/ ReadRecord({RecRoot, RecReply})
  \/ EndOfFile
  \/ FinishWalk
  \/ Exit
  \/ \E t \in {T1, T2} : GetThreadMessages(t)
  \/ (Open /\ \E rs \in SeqsUpTo(ResultSet, MaxResults) : GenerateHTMLOutput(rs))
  \/ Close

SpecThread == Init /\ [][NextThread]_vars

\* the ts members a record can have: absent, not a string, and the strings "",
\* "5.1", "5" (no dot), "5.1.2" (two dots), "x.1" and ".1" (no integer before the
\* dot), "5." (nothing after the dot) and "-5.1" (signed seconds)
TsForms ==
  {<< >>, T1, << "5" >>, << "5", ".", "1", ".", "2" >>, << "x", ".", "1" >>,
   << ".", "1" >>, << "5", "." >>, << "-", "5", ".", "1" >>}

TsRecordSet == {[RecRoot EXCEPT !.ts = t] : t \in {JAbsent, JOther} \cup {JStr(f) : f \in TsForms}}

\* timestamps: IndexChannel on a day file whose records carry every form of ts
NextTs ==
  \/ StartRun({ChannelAB})
  \/ LoadUsersRead({[ok |-> TRUE, data |-> << UserAlice, UserBob >>]})
  \/ InsertUserStep
  \/ LoadChannelsRead({[ok |-> TRUE, data |-> << ChanGeneral >>]})
  \/ InsertChannelStep
  \/ CountFiles({<< File1 >>, << File2 >>})
  \/ OpenFile
  \/ ReadRecord(TsRecordSet)
  \/ EndOfFile
  \/ FinishWalk
  \/ Exit

SpecTs == Init /\ [][NextTs]_vars

(* ------------------------------ claims --------------------------------- *)
\* C1: in every reachable state every messages row has a full-text entry with its
\* id, whose author handle and real name are those the author had in users when
\* the row was inserted; no row is without its entry.
C1_FullTextInSync ==
  \A i \in 1..Len(messages) :
    /\ messages[i].id \in DOMAIN fts
    /\ fts[messages[i].id].user_name = origin[i].name
    /\ fts[messages[i].id].user_real_name = origin[i].real_name

\* C2: appending a message whose author is in no users row succeeds and leaves a
\* full-text entry with empty author handle and real name, so that a search for a
\* term of its text finds the message.
C2_UnknownAuthorIndexed ==
  \A i \in 1..Len(messages) :
    ~origin[i].known =>
      /\ messages[i].id \in DOMAIN fts
      /\ fts[messages[i].id].user_name = << >>
      /\ fts[messages[i].id].user_real_name = << >>
      /\ (/\ out.op = "search" /\ ~out.err /\ ~out.iterErr /\ Len(out.query) = 1
          /\ out.query[1] \in Terms(messages[i].text)
          /\ Len(out.results) < out.limit)
         => \E j \in 1..Len(out.results) : out.results[j].ID = messages[i].id

C4_StoreWriteFatal ==
  writeFailed => (pc = "failed" /\ result.ret = "error")

\* C5: the thread linkage of every accepted record (thread-root token, reply
\* count, replier count, latest-reply token) is on the search result of its
\* message: a record with thread_ts = T gives a result with thread-root token T.
C5_ThreadLinkageKept ==
  (out.op = "search" /\ ~out.err) =>
    \A j \in 1..Len(out.results) :
      LET r   == out.results[j]
          rec == origin[r.ID].rec
      IN  /\ r.ThreadTS = StringOf(rec.thread_ts)
          /\ r.ReplyCount = rec.reply_count
          /\ r.ReplyUsersCount = rec.reply_users_count
          /\ r.LatestReply = StringOf(rec.latest_reply)

\* C6: messagesInThread(T) returns exactly the messages whose own token is T or
\* whose record's thread-root token is T, by ascending calendar timestamp, the
\* root (own token T) first.
C6_ThreadExact ==
  (out.op = "thread" /\ ~out.err) =>
    LET T    == out.root
        want == {i \in 1..Len(messages) :
                   \/ messages[i].timestamp = T
                   \/ StringOf(origin[i].rec.thread_ts) = T}
    IN  /\ {out.msgs[k].ID : k \in 1..Len(out.msgs)} = {messages[i].id : i \in want}
        /\ Len(out.msgs) = Cardinality(want)
        /\ \A k, l \in 1..Len(out.msgs) : k < l => out.msgs[k].Date <= out.msgs[l].Date
        /\ (\E i \in want : messages[i].timestamp = T) => out.msgs[1].Timestamp = T

\* the rows of the store a lookup of root token t selects
RowsOfThread(t) ==
  {i \in 1..Len(messages) : messages[i].timestamp = t \/ RowThreadTS(messages[i]) = t}

\* C7: a result with empty thread-root token and reply count 0 is never marked
\* threaded; a result with reply count > 0 whose lookup returns one message is not
\* marked threaded; a result is marked threaded only when its lookup returned more
\* than one message, and those messages are then its thread context.
C7_ThreadClassification ==
  out.op = "html" =>
    \A i \in 1..Len(out.threaded) :
      LET e == out.threaded[i]
          r == out.results[i]
      IN  /\ (r.ThreadTS = << >> /\ r.ReplyCount = 0) => ~e.IsThreaded
          /\ (r.ReplyCount > 0 /\ e.looked /\ e.found = 1) => ~e.IsThreaded
          /\ e.IsThreaded =>
               /\ e.looked /\ ~e.failed /\ e.found > 1
               /\ Len(e.ThreadMessages) = e.found
               /\ Cardinality(RowsOfThread(e.root)) > 1
          /\ ~e.IsThreaded => e.ThreadMessages = << >>

\* a thread starter (reply count > 0) whose lookup found only itself
C7_Witness ==
  /\ out.op = "html"
  /\ \E i \in 1..Len(out.threaded) :
       /\ out.results[i].ReplyCount > 0 /\ out.results[i].ThreadTS = << >>
       /\ out.threaded[i].looked /\ ~out.threaded[i].failed
       /\ out.threaded[i].found = 1 /\ ~out.threaded[i].IsThreaded

\* C8: a non-empty thread-root token of the result is the root of the lookup
\* whatever the reply count; otherwise, with reply count > 0, the result's own
\* token is the root (looked up when it is not empty); otherwise there is no
\* lookup.  The messages of a threaded result are those of that root.
C8_ThreadRootSelection ==
  out.op = "html" =>
    \A i \in 1..Len(out.threaded) :
      LET e == out.threaded[i]
          r == out.results[i]
          expected == IF r.ThreadTS # << >> THEN r.ThreadTS
                      ELSE IF r.ReplyCount > 0 THEN r.Timestamp ELSE << >>
      IN  /\ r.ThreadTS # << >> => (e.looked /\ e.root = r.ThreadTS)
          /\ (r.ThreadTS = << >> /\ r.ReplyCount > 0) =>
               (e.root = r.Timestamp /\ (e.looked <=> r.Timestamp # << >>))
          /\ (r.ThreadTS = << >> /\ r.ReplyCount <= 0) => ~e.looked
          /\ e.IsThreaded =>
               \A k \in 1..Len(e.ThreadMessages) :
                 \/ e.ThreadMessages[k].Timestamp = expected
                 \/ e.ThreadMessages[k].ThreadTS = expected

\* a reply (thread-root token T1, own token T2) with a reply count of its own,
\* threaded with the messages of T1
C8_Witness ==
  /\ out.op = "html"
  /\ \E i \in 1..Len(out.threaded) :
       /\ out.results[i].ThreadTS = T1 /\ out.results[i].ReplyCount > 0
       /\ out.results[i].Timestamp = T2
       /\ out.threaded[i].IsThreaded
       /\ \A k \in 1..Len(out.threaded[i].ThreadMessages) :
            out.threaded[i].ThreadMessages[k].Timestamp = T1

\* the last entry of a reference file with identifier id
LastIn(data, id) ==
  data[CHOOSE i \in 1..Len(data) :
         data[i].ID = id /\ \A j \in (i + 1)..Len(data) : data[j].ID # id]

\* C9: when loadUsers (loadChannels) has returned, each identifier of the file
\* has the values of its last entry, every other row is as it was, the table has
\* one row per identifier, and a table that already held the file's content is
\* left as it was, with the same count.
C9_UpsertIdempotent ==
  /\ pc = "loadChannels" =>
       /\ DOMAIN users = DOMAIN users0 \cup IdsIn(usersData)
       /\ \A id \in IdsIn(usersData) : users[id] = UserRow(LastIn(usersData, id))
       /\ \A id \in DOMAIN users0 \ IdsIn(usersData) : users[id] = users0[id]
       /\ (\A id \in IdsIn(usersData) :
             id \in DOMAIN users0 /\ users0[id] = UserRow(LastIn(usersData, id)))
          => (users = users0
              /\ Cardinality(DOMAIN users) = Cardinality(DOMAIN users0))
  /\ pc = "count" =>
       /\ DOMAIN channels = DOMAIN channels0 \cup IdsIn(channelsData)
       /\ \A id \in IdsIn(channelsData) :
            channels[id] = ChannelRow(LastIn(channelsData, id))
       /\ \A id \in DOMAIN channels0 \ IdsIn(channelsData) : channels[id] = channels0[id]
       /\ (\A id \in IdsIn(channelsData) :
             id \in DOMAIN channels0
             /\ channels0[id] = ChannelRow(LastIn(channelsData, id)))
          => (channels = channels0
              /\ Cardinality(DOMAIN channels) = Cardinality(DOMAIN channels0))

\* the second run has loaded a users.json with one identifier twice into a table
\* that already held its content, and the table is as before
C9_Witness ==
  /\ pc = "loadChannels" /\ runs = 2
  /\ usersData = << UserAlice, UserRenamed >>
  /\ users0 = users /\ U1 \in DOMAIN users /\ users[U1] = UserRow(UserRenamed)

\* the content of a messages row, its id apart
SameContent(a, b) == [a EXCEPT !.id = 0] = [b EXCEPT !.id = 0]

\* C10: every day file that processMessageFile finishes has added exactly as
\* many messages rows as it holds accepted records, whether or not rows of the
\* same content were already stored.
C10_AppendOnlyGrowth ==
  [][(pc = "records" /\ pc' = "walk" /\ processedFiles' = processedFiles + 1)
       => Len(messages') = fileStart + Len(fileWanted)]_vars

\* the second run has stored a record again whose row an earlier run had stored
C10_Witness ==
  /\ pc = "walk" /\ runs = 2 /\ processedFiles = 1 /\ ~writeFailed
  /\ Len(fileWanted) = 1 /\ Len(messages) = fileStart + 1 /\ fileStart >= 1
  /\ \E i \in 1..fileStart : SameContent(messages[i], messages[fileStart + 1])

\* C11: in every run, no messages row is added before loadUsers and loadChannels
\* have returned: while the reference data is being loaded, and when the run
\* failed, the table has the rows it had when the run began; and from the count
\* of the day files on, every identifier of users.json and of channels.json has
\* its row.
C11_OrderingBarrier ==
  /\ Len(messages) # msgs0 => pc \in {"walk", "records", "done"}
  /\ pc \in {"count", "walk", "records", "done"} =>
       (userIds \subseteq DOMAIN users /\ channelIds \subseteq DOMAIN channels)

\* the second run appends a row after it has loaded users and channels
C11_Witness ==
  /\ pc = "records" /\ runs = 2 /\ msgs0 > 0 /\ Len(messages) > msgs0
  /\ userIds # {} /\ channelIds # {}
  /\ userIds \subseteq DOMAIN users /\ channelIds \subseteq DOMAIN channels

\* C12: when users.json or channels.json cannot be read or parsed, IndexChannel
\* returns an error and the run has added no messages row.
C12_ReferenceFailureAborts ==
  refFailed => (pc = "failed" /\ result.ret = "error" /\ Len(messages) = msgs0)

\* channels.json fails after users.json was loaded, in a store that holds messages
C12_Witness ==
  /\ refFailed /\ pc = "failed" /\ userIds # {} /\ msgs0 > 0
  /\ result.ret = "error" /\ Len(messages) = msgs0

\* the file at position i of the listing cannot be processed: unreadable, not a
\* top-level array, or named by something that is not a date
BadFile(i) ==
  outcomes[i].content # "array" \/ ~ParseDate(TrimSuffixJson(dir[i])).ok

C14_RecordIndependence ==
  [][/\ pc' = "records" =>
          /\ Len(messages') = fileStart' + Len(fileWanted')
          /\ \A k \in 1..Len(fileWanted') :
               LET row == messages'[fileStart' + k]
                   rec == fileWanted'[k]
               IN  /\ row.user_id = rec.user.s /\ row.text = rec.text.s
                   /\ row.timestamp = StringOf(rec.ts)
                   /\ row.type = StringOf(rec.type)
                   /\ row.subtype = StringOf(rec.subtype)
                   /\ row.filename = dir'[fi']
     /\ (pc = "records" /\ pc' # "records") =>
          /\ Len(outcomes') = Len(outcomes) + 1
          /\ \/ /\ outcomes'[Len(outcomes')].end = "processed"
                /\ messages' = messages
             \/ /\ outcomes'[Len(outcomes')].end = "failed"
                /\ Len(fileWanted') = Len(fileWanted) + 1
                /\ messages' = messages]_vars

\* the second record of a file was stored after its first record was rejected
C14_Witness ==
  /\ pc = "records" /\ fileRead = 2 /\ Len(fileWanted) = 1
  /\ Len(messages) = fileStart + 1 /\ filePos = << 2 >>

\* an optional sign and one or more digits
IsIntegerText(s) ==
  LET body == IF s # << >> /\ s[1] \in {"+", "-"} THEN Tail(s) ELSE s
  IN  body # << >> /\ \A i \in 1..Len(body) : body[i] \in Digits

\* the token has one dot and an integer before it
SecondsForm(tok) ==
  \E k \in 1..Len(tok) :
    /\ tok[k] = "." /\ \A j \in 1..Len(tok) : j # k => tok[j] # "."
    /\ IsIntegerText(SubSeq(tok, 1, k - 1))

\* the integer before the dot
SecondsOf(tok) ==
  LET k    == CHOOSE i \in 1..Len(tok) : tok[i] = "."
      int  == SubSeq(tok, 1, k - 1)
      body == IF int[1] \in {"+", "-"} THEN Tail(int) ELSE int
  IN  IF int[1] = "-" THEN 0 - DecimalValue(body) ELSE DecimalValue(body)

\* C15: the timestamp column of every row is the ts string of its record as it
\* is ("" when there is none); the date column is the integer seconds of a token
\* with one dot and an integer before it (whatever follows the dot), and the
\* date of the file name for every other token.
C15_TimestampNormalised ==
  \A i \in 1..Len(messages) :
    LET tok == origin[i].rec.ts
    IN  /\ messages[i].timestamp = IF tok.t = "string" THEN tok.s ELSE << >>
        /\ messages[i].date =
             IF tok.t = "string" /\ SecondsForm(tok.s) THEN SecondsOf(tok.s)
             ELSE ParseDate(TrimSuffixJson(messages[i].filename)).t

\* the file of 1970-01-02 gave a row with token "5" dated by the file, and a row
\* with token "5.1" dated by its seconds
C15_Witness ==
  /\ Len(messages) = 2
  /\ messages[1].timestamp = << "5" >> /\ messages[1].date = 86400
  /\ messages[2].timestamp = T1 /\ messages[2].date = 5
  /\ messages[1].filename = File2 /\ messages[2].filename = File2

\* C16: Search hands the query as it is and the effective limit (10 for a limit
\* <= 0) to SearchMessages and returns what that returns; no more results than
\* the effective limit come back.
C16_SearchPassThrough ==
  out.op = "search" =>
    LET eff == IF out.asked <= 0 THEN 10 ELSE out.asked
    IN  /\ out.limit = eff
        /\ out \in SearchOutcomes(out.query, out.asked, eff)
        /\ Len(out.results) <= eff
        /\ (~out.err /\ ~out.iterErr) => out.results = SearchMessages(out.query, eff)

\* a search with limit 0 returned two results
C16_Witness ==
  /\ out.op = "search" /\ out.asked = 0 /\ out.limit = 10
  /\ ~out.err /\ ~out.iterErr /\ Len(out.results) = 2

\* C17: a Search that returns no error returns all matches up to the limit (none
\* when nothing matches); an error while the rows are iterated never gives a
\* successful, shortened result list.
C17_NoPartialResults ==
  (out.op = "search" /\ ~out.err) => out.results = SearchMessages(out.query, out.limit)

\* no messages row holds the term of the query in its text, author names or file name
NoMatch(q) ==
  \A i \in 1..Len(messages) :
    ~(/\ Len(q) = 1
      /\ q[1] \in Terms(messages[i].text) \cup Terms(messages[i].filename)
                  \cup Terms(SearchRow(messages[i]).UserName)
                  \cup Terms(SearchRow(messages[i]).UserRealName))

\* C18: a well-formed query that no message matches returns an empty result list
\* and no error, and FormatResults shows it as "No results found.".
C18_EmptyIsSuccess ==
  /\ (out.op = "search" /\ ~QueryFails(out.query) /\ NoMatch(out.query)) =>
       (~out.err /\ out.results = << >>)
  /\ (out.op = "text" /\ NoMatch(out.query)) =>
       /\ out.results = << >>
       /\ out.text.head = "No results found." /\ out.text.blocks = << >>

\* a store with messages, a query none of them matches, and the text shown
C18_Witness ==
  /\ out.op = "text" /\ out.query = << "zzz" >> /\ Len(messages) > 0
  /\ out.results = << >> /\ out.text.head = "No results found."

\* C19: a result whose thread lookup failed is not threaded and has no thread
\* messages; every result has its entry, and a result whose lookup returned more
\* than one message is threaded whatever happened to the others; GenerateHTMLOutput
\* returns an error only when the page was not written.
C19_LookupFailureTolerated ==
  out.op = "html" =>
    /\ Len(out.threaded) = Len(out.results)
    /\ out.err <=> ~out.written
    /\ \A i \in 1..Len(out.threaded) :
         LET e == out.threaded[i]
         IN  /\ e.OriginalResult = out.results[i]
             /\ e.failed => (~e.IsThreaded /\ e.ThreadMessages = << >>)
             /\ (e.looked /\ ~e.failed /\ e.found > 1) => e.IsThreaded

\* the lookup of the first result failed, the second result is threaded, and the
\* page was written without error
C19_Witness ==
  /\ out.op = "html" /\ Len(out.threaded) = 2 /\ ~out.err /\ out.written
  /\ out.threaded[1].failed /\ ~out.threaded[1].IsThreaded
  /\ out.threaded[2].IsThreaded

\* the accepted records of the files that were processed to their end
RECURSIVE AcceptedIn(_)
AcceptedIn(os) ==
  IF os = << >> THEN 0
  ELSE (IF Head(os).end = "processed" THEN Head(os).wanted ELSE 0) + AcceptedIn(Tail(os))

\* C20: the counts IndexChannel reports after the first ingestion into an empty
\* store: users and channels are the distinct identifiers of users.json and
\* channels.json, messages is the number of accepted records of the day files
\* that were processed without a failure.
C20_StatsAfterIngestion ==
  (pc = "done" /\ runs = 1) =>
    /\ result.users = Cardinality(userIds)
    /\ result.channels = Cardinality(channelIds)
    /\ result.messages = AcceptedIn(outcomes)

(* ------------------------ claims on store files ------------------------ *)
\* the channel names given to the commands: each character of the replacer
\* tables alone, "_" and "a" which the tables lack, the empty name, "a_b", "a b"
NameUnits == {":", "/", "\\", "*", "?", "\"", "<", ">", "|", " ", "_", "a"}
Names     == {<< >>, ChannelAB, ChannelASpace} \cup {<< c >> : c \in NameUnits}

\* store files: ingests of the channels "a_b" and "a b" from one day file, and the
\* search command on every name
NextNames ==
  \/ StartRun({ChannelAB, ChannelASpace})
  \/ LoadUsersRead({[ok |-> TRUE, data |-> << UserAlice, UserBob >>]})
  \/ InsertUserStep
  \/ LoadChannelsRead({[ok |-> TRUE, data |-> << ChanGeneral >>]})
  \/ InsertChannelStep
  \/ CountFiles({<< File1 >>})
  \/ OpenFile
  \/ ReadRecord({RecRoot})
  \/ EndOfFile
  \/ FinishWalk
  \/ Exit
  \/ ValidateDatabaseExists(Names)
  \/ NewSearcher
  \/ SearcherGetStats
  \/ Search(<< "hello" >>, 1)
  \/ GetThreadMessages(T1)
  \/ Close

SpecNames == Init /\ [][NextNames]_vars

\* C21: the location ValidateDatabaseExists computes for a channel name on the
\* query path is the location NewDB computes for it on the ingestion path, for
\* every channel name: the two sanitizeFilename functions agree.
C21_SameLocation ==
  /\ out.op = "validate" =>
       /\ out.path = DBPath(out.name)
       /\ searcherSanitizeFilename(out.name) = sanitizeFilename(out.name)
  /\ out.op = "open" => out.path = ValidatePath(out.name)

\* the search command validates "a b" after an ingest of "a b" stored a row: the
\* location is that of the store the ingest wrote
C21_Witness ==
  /\ out.op = "validate" /\ out.name = ChannelASpace /\ out.path = Home
  /\ Len(origin) > 0 /\ origin[1].channel = ChannelASpace
  /\ DBPath(ChannelASpace) \in databases

\* C22: two different channel names never have the same store: the rows of the
\* store a Searcher opens for a channel were all written by ingests of that
\* channel, and rows of two channels are never in one store.
C22_IndependentStores ==
  /\ \A i, j \in 1..Len(origin) :
       DBPath(origin[i].channel) = DBPath(origin[j].channel)
         => origin[i].channel = origin[j].channel
  /\ (out.op = "open" /\ ~out.err) =>
       \A i \in 1..Len(origin) :
         DBPath(origin[i].channel) = out.path => origin[i].channel = out.name

\* C23: a step of the search command (ValidateDatabaseExists, NewSearcher, Search,
\* GetStats, GetThreadMessages, GenerateHTMLOutput, Close) leaves users, channels,
\* messages and the full-text entries as they were and creates no database file.
C23_SearchReadOnly ==
  [][(pc = "idle" /\ pc' = "idle")
       => (UNCHANGED << users, channels, messages, fts >> /\ databases' = databases)]_vars

\* C25: ValidateDatabaseExists is false exactly when no database file exists at
\* the location of the name.
C25_DatabaseNotFound ==
  out.op = "validate" => (out.exists <=> out.path \in databases)

(* ------------------------ claims on the messages ----------------------- *)
\* C24: no step of any run or command deletes a messages row or changes a field
\* of one: after every step the table has at least as many rows, and each row it
\* had is still at its place with the same fields. Re-upserts of users and
\* channels are such steps.
C24_MessagesAppendOnly ==
  [][/\ Len(messages') >= Len(messages)
     /\ \A i \in 1..Len(messages) : messages'[i] = messages[i]]_vars

\* the second run has replaced the users row of the author of a stored message
\* (the handle changed) and the message is as the first run stored it
C24_Witness ==
  /\ runs = 2 /\ pc \in {"insertUsers", "loadChannels"} /\ Len(messages) >= 1
  /\ messages[1].user_id = U1 /\ origin[1].name = << "alice" >>
  /\ U1 \in DOMAIN users /\ users[U1] = UserRow(UserRenamed)
  /\ messages[1] = MessageRow(1, [UserID |-> U1, Text |-> messages[1].text,
                                  Type |-> messages[1].type,
                                  Subtype |-> messages[1].subtype,
                                  Timestamp |-> messages[1].timestamp,
                                  Date |-> messages[1].date,
                                  Filename |-> messages[1].filename])

\* C26: the ids of the messages rows increase strictly in the order the rows were
\* appended, so the row appended last has an id above every earlier one and no
\* two rows have the same id.
C26_IdsIncrease ==
  \A i, j \in 1..Len(messages) : i < j => messages[i].id < messages[j].id

\* a row appended in the second run, after a row of the first run
C26_Witness ==
  /\ runs = 2 /\ msgs0 = 1 /\ Len(messages) = 2 /\ pc = "records"
  /\ messages[2].id > messages[1].id

\* C28: when processMessageFile returns from a file, either the file is counted
\* as processed and the table has one more row for each of its accepted records,
\* or it is not counted and the table has the rows it had when the file was opened.
C28_FileAllOrNothing ==
  [][(pc = "records" /\ pc' = "walk")
       => IF processedFiles' = processedFiles + 1
          THEN Len(messages') = fileStart + Len(fileWanted')
          ELSE Len(messages') = fileStart]_vars

(* ------------------------- claims on termination ----------------------- *)
\* the steps of IndexChannel, from its call to its return
IngestStep ==
  \/ LoadUsersRead({[ok |-> TRUE, data |-> << UserAlice, UserBob >>],
                    [ok |-> FALSE, data |-> << >>]})
  \/ InsertUserStep
  \/ LoadChannelsRead(MainChannelsFiles)
  \/ InsertChannelStep
  \/ CountFiles(Listings)
  \/ OpenFile
  \/ ReadRecord({RecRoot, RecMalformed})
  \/ EndOfFile
  \/ FinishWalk

\* ingestion alone: runs of IndexChannel on every listing of day files
NextLive ==
  \/ StartRun({ChannelAB})
  \/ IngestStep
  \/ Exit

\* IndexChannel is sequential code that waits for nothing: once called, it takes
\* its next step
SpecLive == Init /\ [][NextLive]_vars /\ WF_vars(IngestStep)

\* C27: every call of IndexChannel returns, with nil or with an error; and while
\* it walks the day files each step either goes on to the next file, with one
\* outcome for the file it leaves, or stays on the current file to open it or to
\* read its next record: no file is opened twice and no record is read twice.
C27_TerminatesNoRetry ==
  /\ (pc = "loadUsers") ~> (pc \in {"done", "failed"} /\ result.ret \in {"ok", "error"})
  /\ [][(pc \in {"walk", "records"} /\ pc' \in {"walk", "records"})
          => /\ fi' \in {fi, fi + 1}
             /\ Len(outcomes') = fi' - 1
             /\ fi' = fi => /\ pc' = "records"
                            /\ fileRead' = IF pc = "walk" THEN 0 ELSE fileRead + 1]_vars

\* a run over two day files has returned nil: the first file could not be read
\* and the second was processed
C27_Witness ==
  /\ pc = "done" /\ result.ret = "ok" /\ Len(dir) = 2 /\ fi = 3 /\ Len(outcomes) = 2
  /\ outcomes[1].end = "skipped" /\ outcomes[2].end = "processed"
  /\ totalFiles = 2 /\ processedFiles = 1

(* ----------------------- claims on thread context ---------------------- *)
\* models.SearchResult of the stored message i as a caller of GenerateHTMLOutput
\* can build it: the columns of its row, and the thread fields of models.Message
\* set from the record the row was stored from
ResultOf(i) ==
  [SearchRow(messages[i]) EXCEPT
     !.ThreadTS = StringOf(origin[i].rec.thread_ts),
     !.ReplyCount = origin[i].rec.reply_count,
     !.ReplyUsersCount = origin[i].rec.reply_users_count,
     !.LatestReply = StringOf(origin[i].rec.latest_reply)]

\* thread context: a store of at most MaxThreadMsgs rows filled from day files of
\* roots and replies, and GenerateHTMLOutput on the result of one stored message
NextCtx ==
  \/ StartRun({ChannelAB})
  \/ LoadUsersRead({[ok |-> TRUE, data |-> << UserAlice, UserBob >>]})
  \/ InsertUserStep
  \/ LoadChannelsRead({[ok |-> TRUE, data |-> << ChanGeneral >>]})
  \/ InsertChannelStep
  \/ CountFiles({<< File1 >>})
  \/ OpenFile
  \/ ReadRecordUpTo({RecRoot, RecReply}, MaxThreadMsgs)
  \/ EndOfFile
  \/ FinishWalk
  \/ Exit
  \/ (Open /\ \E i \in 1..Len(messages) : GenerateHTMLOutput(<< ResultOf(i) >>))
  \/ Close

SpecCtx == Init /\ [][NextCtx]_vars

C30_OneEntryPerResult ==
  out.op = "html" =>
    /\ Len(out.threaded) = Len(out.results)
    /\ \A i \in 1..Len(out.threaded) :
         LET e == out.threaded[i]
         IN  /\ e.OriginalResult = out.results[i]
             /\ e.IsThreaded <=> e.ThreadMessages # << >>
             /\ e.ThreadMessages # << >> => Len(e.ThreadMessages) >= 2

\* two different results, the first without a thread and the second with the
\* two messages of its thread
C30_Witness ==
  /\ out.op = "html" /\ Len(out.results) = 2 /\ out.results[1] # out.results[2]
  /\ out.results[1].ThreadTS = << >> /\ out.results[1].ReplyCount = 0
  /\ ~out.threaded[1].IsThreaded /\ out.threaded[1].ThreadMessages = << >>
  /\ out.threaded[2].IsThreaded /\ Len(out.threaded[2].ThreadMessages) = 2
====
